---- MODULE Spec2Model ----
(***************************************************************************)
(* Model of the infinite-social-feed backend: the Post/Like store, the     *)
(* like, unlike, view and edit handlers, the personalised feed             *)
(* (RankingEngine and the GET /feed route) and the trending posts (GET     *)
(* /trending).  Every await of a handler is an interleaving point, so each *)
(* handler is a short sequence of steps.                                   *)
(*                                                                         *)
(* Time is counted in ticks of half an hour (HourTicks ticks per hour), so *)
(* that two posts can have different createdAt inside one hour bucket.     *)
(* Scores are exact rationals <<num, den>> with den > 0; Math.log is the   *)
(* table LnMilli (natural logarithm, in thousandths).                      *)
(***************************************************************************)
EXTENDS Integers, Sequences, FiniteSets

\* ---------------------------------------------------------------- bounds
\* Events of the environment that are followed: clock ticks and accepted
\* write requests (create, soft delete, like, unlike, view, edit).
MaxEvents == 3
MaxPages == 3        \* page requests of one scroll session
MaxClock == 4        \* clock and createdAt values the scoring is applied to
MaxLikes == 3        \* likes and maxLikes values the scoring is applied to
MaxRuns == 2         \* scoring runs of one post that are compared

\* Every event can be a create, and the store can hold one post before the
\* first event.
MaxPosts == MaxEvents + 1

\* Post.find(...).limit(1000): the candidate window, scaled down to one less
\* than the posts the store can hold, so that the window can be exceeded.
CandidateLimit == MaxPosts - 1

\* ------------------------------------------------------ program constants
HourTicks == 2       \* 1000 * 60 * 60 ms, in clock ticks
MaxLimit == 50
DefaultLimit == 10
DefaultPage == 1
DefaultDays == 7
DayTicks == 24 * HourTicks

Users == {"u1", "u2"}
\* The user whose posts are followed: req.user._id of the create requests.
Author == "u1"
\* Handlers of write requests that can be in flight together, and the one
\* that is followed where the writes do not race each other.
OpIds == {"o1", "o2"}
Writers == {"o1"}
PostIds == 1 .. MaxPosts

\* Raw tag strings a client can send, and tag.toLowerCase().trim() on them.
RawTags == {"a", "A", " "}
Normalize(t) == CASE t = "A" -> "a" [] t = " " -> "" [] OTHER -> t
RawTagLists == {<<>>, <<"A">>, <<"a", "A", " ">>}

\* Raw content strings a client can send in an edit: none or empty, blanks
\* only, two texts (one with blanks around it), and a text of more than 2000
\* characters; content.trim() and content.length > 2000 on them.
RawContents == {"", " ", "x", " y ", "long"}
Trim(t) == CASE t = " y " -> "y" [] t = " " -> "" [] OTHER -> t
TooLong(t) == t = "long"

\* Normalised tags the scoring is applied to.
TagPool == {"a", "b", "c"}

\* A raw query-string value: absent, a non-numeric text, or an integer text.
RawAbsent == [t |-> "absent", v |-> 0]
RawText == [t |-> "text", v |-> 0]
RawInt(n) == [t |-> "int", v |-> n]
NaN == [nan |-> TRUE, v |-> 0]

VARIABLES posts, likes, now, ops, feed, resp, scroll, dirty, events

vars == <<posts, likes, now, ops, feed, resp, scroll, dirty, events>>

\* ------------------------------------------------------------------ store
\* engagement is the rational <<num, den>>; comments and shares have no
\* writer in the routes and stay 0.
NewPost == [created |-> FALSE, isActive |-> FALSE, createdAt |-> 0,
            likes |-> 0, views |-> 0, engagement |-> <<0, 1>>, tags |-> {},
            userId |-> "none", content |-> "", isEdited |-> FALSE, editHistory |-> <<>>]

\* The document POST / stores: isEdited false, no edit history.
FirstContent == "c0"

\* updateEngagement: (likes + comments * 2 + shares * 3) / (views + 1)
updateEngagement(doc) == IF doc.likes = 0 THEN <<0, 1>> ELSE <<doc.likes, doc.views + 1>>

Created == {p \in PostIds : posts[p].created}

\* The paths of the document findById returns that a handler changes: the
\* handler's own copy.
Doc(p) == [likes |-> posts[p].likes, views |-> posts[p].views,
           engagement |-> posts[p].engagement, content |-> posts[p].content,
           isEdited |-> posts[p].isEdited, editHistory |-> posts[p].editHistory]
Active == {p \in PostIds : posts[p].created /\ posts[p].isActive}

SeqToSet(s) == {s[i] : i \in 1 .. Len(s)}

Min(a, b) == IF a < b THEN a ELSE b

Take(s, n) == SubSeq(s, 1, Min(n, Len(s)))

\* [...new Set(tags.map(tag => tag.toLowerCase().trim()))]
\*   .filter(tag => tag.length > 0).slice(0, 10)
ProcessTags(raw) == {Normalize(raw[i]) : i \in 1 .. Len(raw)} \ {""}

\* ---------------------------------------------------------------- scoring
LnMilli(n) == <<0, 693, 1099, 1386, 1609, 1792, 1946, 2079>>[n]

\* Math.floor((now - created) / (1000 * 60 * 60))
hoursSinceCreation(created, clock) == (clock - created) \div HourTicks

\* The three terms, in tenths: <<num, den>> stands for num / (10 * den).
\* A division by zero gives Infinity or NaN in the code and den = 0 here.

\* calculateTagScore dividing by the number of post tags.
calculateTagScoreByPostTags(userLikedTags, postTags) ==
    IF userLikedTags = {} THEN <<0, 1>>
    ELSE IF postTags = {} THEN <<0, 1>>
    ELSE <<4 * Cardinality({t \in postTags : t \in userLikedTags}),
           Cardinality(postTags)>>

calculateTagScore(userLikedTags, postTags) ==
    IF userLikedTags = {} THEN <<0, 1>>
    ELSE IF postTags = {} THEN <<0, 1>>
    ELSE <<4 * Cardinality({t \in postTags : t \in userLikedTags}),
           Cardinality(userLikedTags)>>

calculateRecencyScore(h) == <<3, h + 1>>

\* calculatePopularityScore without the maxLikes === 0 guard.
calculatePopularityScoreNoGuard(n, maxLikes) ==
    <<3 * LnMilli(n + 1), LnMilli(maxLikes + 1)>>

calculatePopularityScore(n, maxLikes) ==
    IF maxLikes = 0 THEN <<0, 1>>
    ELSE <<3 * LnMilli(n + 1), LnMilli(maxLikes + 1)>>

Add(a, b) == <<a[1] * b[2] + b[1] * a[2], a[2] * b[2]>>

\* Terms with the popularity term taken from the post's views.
TermsByViews(post, userLikedTags, maxLikes, clock) ==
    [hours |-> hoursSinceCreation(post.createdAt, clock),
     tag |-> calculateTagScore(userLikedTags, post.tags),
     recency |-> calculateRecencyScore(hoursSinceCreation(post.createdAt, clock)),
     popularity |-> calculatePopularityScore(post.views, maxLikes)]

\* tagScore, recencyScore and popularityScore of calculateRankingScore
Terms(post, userLikedTags, maxLikes, clock) ==
    [hours |-> hoursSinceCreation(post.createdAt, clock),
     tag |-> calculateTagScore(userLikedTags, post.tags),
     recency |-> calculateRecencyScore(hoursSinceCreation(post.createdAt, clock)),
     popularity |-> calculatePopularityScore(post.likes, maxLikes)]

\* tagScore + recencyScore + popularityScore, as a rational in units of 1
calculateRankingScore(post, userLikedTags, maxLikes, clock) ==
    LET t == Terms(post, userLikedTags, maxLikes, clock)
        s == Add(Add(t.tag, t.recency), t.popularity)
    IN <<s[1], 10 * s[2]>>

Geq(a, b) == a[1] * b[2] >= b[1] * a[2]
Gt(a, b) == a[1] * b[2] > b[1] * a[2]
Eq(a, b) == a[1] * b[2] = b[1] * a[2]

\* document.save(): the pre-save hook recomputes engagement from the
\* handler's copy, and the paths whose value differs from the value that was
\* loaded are written; the other paths of the stored post stay as they are.
\* The entries pushed on editHistory are appended to the stored array.
Save(stored, loaded, doc) ==
    LET e == updateEngagement(doc)
    IN [stored EXCEPT !.likes = IF doc.likes # loaded.likes THEN doc.likes ELSE @,
                      !.views = IF doc.views # loaded.views THEN doc.views ELSE @,
                      !.engagement = IF Eq(e, loaded.engagement) THEN @ ELSE e,
                      !.content = IF doc.content # loaded.content THEN doc.content ELSE @,
                      !.isEdited = IF doc.isEdited # loaded.isEdited THEN doc.isEdited ELSE @,
                      !.editHistory = @ \o SubSeq(doc.editHistory,
                                                  Len(loaded.editHistory) + 1,
                                                  Len(doc.editHistory))]

\* ----------------------------------------------------------- store reads
\* Like.find({ userId }).populate('postId', 'tags'), folded into a Set of
\* tag.toLowerCase()
UserLikedTags(u) ==
    {Normalize(t) : t \in UNION {posts[p].tags : p \in {q \in Created : likes[<<u, q>>] > 0}}}

\* The largest number of a finite set of naturals, 0 for the empty set.
MaxOf(S) == IF S = {} THEN 0 ELSE CHOOSE m \in S : \A n \in S : n <= m

\* Post.findOne({}, 'likes').sort({ likes: -1 }): every post, active or not
MaxLikesOfStore ==
    IF Created = {} THEN 0
    ELSE CHOOSE m \in {posts[p].likes : p \in Created} :
             \A p \in Created : posts[p].likes <= m

Orderings(S) ==
    {f \in [1 .. Cardinality(S) -> S] : \A i, j \in DOMAIN f : i # j => f[i] # f[j]}

NewestFirst(s) == \A i \in 1 .. Len(s) - 1 : posts[s[i]].createdAt >= posts[s[i + 1]].createdAt

\* FindActive without the isActive filter.
FindAll == {Take(s, CandidateLimit) : s \in {f \in Orderings(Created) : NewestFirst(f)}}

\* Post.find({ isActive: true }).sort({ createdAt: -1 }).limit(1000).
\* The store fixes no order among documents with equal createdAt, so every
\* order of them is a possible answer.
FindActive == {Take(s, CandidateLimit) : s \in {f \in Orderings(Active) : NewestFirst(f)}}

\* The (engagement descending, likes descending) order of the store.
MoreTrending(p, q) ==
    \/ Gt(posts[p].engagement, posts[q].engagement)
    \/ Eq(posts[p].engagement, posts[q].engagement) /\ posts[p].likes > posts[q].likes

SameTrending(p, q) ==
    Eq(posts[p].engagement, posts[q].engagement) /\ posts[p].likes = posts[q].likes

\* The posts getTrending selects: active, created in the last `days` days.
InWindow(days) == {p \in Active : posts[p].createdAt >= now - days * DayTicks}

\* Post.getTrending(limit, days): find({ isActive: true, createdAt: { $gte:
\* dateLimit } }).sort({ engagement: -1, likes: -1 }).limit(limit); posts
\* with equal sort keys come in any order.
getTrending(limit, days) ==
    {Take(s, limit) : s \in {f \in Orderings(InWindow(days)) :
        \A i \in 1 .. Len(f) - 1 : MoreTrending(f[i], f[i + 1]) \/ SameTrending(f[i], f[i + 1])}}

\* Like.find({ userId, postId: { $in: postIds } })
UserLikeSet(u, ids) == {p \in ids : likes[<<u, p>>] > 0}

\* ---------------------------------------------------------------- ranking
\* postsWithScores.sort((a, b) => b.rankingScore - a.rankingScore): a stable
\* sort, so entries of equal score keep the order the store returned.
RECURSIVE SortByScore(_, _)
SortByScore(s, sc) ==
    IF s = <<>> THEN <<>>
    ELSE LET front == SortByScore(SubSeq(s, 1, Len(s) - 1), sc)
             x == s[Len(s)]
             k == Cardinality({i \in 1 .. Len(front) : Geq(sc[front[i]], sc[x])})
         IN SubSeq(front, 1, k) \o <<x>> \o SubSeq(front, k + 1, Len(front))

\* Slice with the start clamped so that the last page is always a full one.
SliceClamped(s, skip, limit) ==
    LET room == IF Len(s) > limit THEN Len(s) - limit ELSE 0
        start == Min(skip, room)
    IN SubSeq(s, start + 1, Min(start + limit, Len(s)))

\* postsWithScores.slice(skip, skip + limit)
Slice(s, skip, limit) == SubSeq(s, skip + 1, Min(skip + limit, Len(s)))

\* HasMore with <= for <.
HasMoreInclusive(skip, limit, n) == skip + limit <= n

\* hasMore: skip + limit < postsWithScores.length
HasMore(skip, limit, n) == skip + limit < n

\* ----------------------------------------------------- GET /feed parsing
\* parseInt(req.query.x)
ParseInt(raw) == IF raw.t = "int" THEN [nan |-> FALSE, v |-> raw.v] ELSE NaN

\* parsed || dflt: NaN and 0 are falsy
OrDefault(parsed, dflt) == IF parsed.nan \/ parsed.v = 0 THEN dflt ELSE parsed.v

\* page < 1 || limit < 1 || limit > 50
InvalidPagination(page, limit) == page < 1 \/ limit < 1 \/ limit > MaxLimit

\* ------------------------------------------------------------ initial state
NoDoc == [likes |-> 0, views |-> 0, engagement |-> <<0, 1>>,
          content |-> "", isEdited |-> FALSE, editHistory |-> <<>>]
IdleOp == [kind |-> "idle", pc |-> "idle", user |-> "none", post |-> 0, doc |-> NoDoc,
           text |-> ""]

IdleFeed == [pc |-> "idle", user |-> "none", rawPage |-> RawAbsent, rawLimit |-> RawAbsent,
             page |-> 0, limit |-> 0, track |-> FALSE, failed |-> FALSE,
             likedTags |-> {}, maxLikes |-> 0, poolMax |-> 0, ranking |-> <<>>,
             pool |-> <<>>, activeAtRead |-> {}, posts |-> <<>>, scores |-> <<>>,
             total |-> 0, hasMore |-> FALSE]

\* The answer GET /feed sends in the step just taken (NoResp when the step
\* sent none), and the answers of the other routes in the fields route,
\* status, likes and content.  user, post and rawContent of such an answer
\* record the request it answers.  pool, activeAtRead, maxLikes, poolMax, ranking, terms and
\* failed are not part of the JSON body: they record what the request read
\* and computed.
NoResp == [status |-> 0, route |-> "none", post |-> 0, likes |-> 0, content |-> "",
           rawContent |-> "",
           user |-> "none", rawPage |-> RawAbsent, rawLimit |-> RawAbsent,
           page |-> 0, limit |-> 0, track |-> FALSE,
           failed |-> FALSE, pool |-> <<>>, activeAtRead |-> {},
           maxLikes |-> 0, poolMax |-> 0, ranking |-> <<>>, terms |-> <<>>,
           posts |-> <<>>, scores |-> <<>>, isLiked |-> {},
           total |-> 0, hasMore |-> FALSE]

NoScroll == [user |-> "none", k |-> 0, pages |-> <<>>, inAll |-> PostIds]

Init ==
    /\ posts = [p \in PostIds |-> NewPost]
    /\ likes = [x \in Users \X PostIds |-> 0]
    /\ now = 0
    /\ ops = [o \in OpIds |-> IdleOp]
    /\ feed = IdleFeed
    /\ resp = NoResp
    /\ scroll = NoScroll
    /\ dirty = FALSE
    /\ events = 0

\* A write to the store after the scroll session began.
Written == scroll.k # 0

\* The environment is followed for MaxEvents events, and until the scroll
\* session has made MaxPages requests.
Followed == events < MaxEvents /\ Len(scroll.pages) < MaxPages

\* ------------------------------------------------------------------ clock
Tick ==
    /\ Followed
    /\ now' = now + 1
    /\ events' = events + 1
    /\ resp' = NoResp
    /\ UNCHANGED <<posts, likes, ops, feed, scroll, dirty>>

\* ---------------------------------------------------------- POST / (create)
\* validatePostContent and validateTags reject the request before anything is
\* stored; an accepted request stores one new active post, timestamps: true.
CreatePost(contentOk, rawTags) ==
    /\ Followed
    /\ Cardinality(Created) < MaxPosts
    /\ IF contentOk
       THEN LET id == Cardinality(Created) + 1
            IN /\ posts' = [posts EXCEPT ![id] =
                              [created |-> TRUE, isActive |-> TRUE, createdAt |-> now,
                               likes |-> 0, views |-> 0, engagement |-> <<0, 1>>,
                               tags |-> ProcessTags(rawTags),
                               userId |-> Author, content |-> FirstContent,
                               isEdited |-> FALSE, editHistory |-> <<>>]]
               /\ dirty' = (dirty \/ Written)
               /\ events' = events + 1
       ELSE UNCHANGED <<posts, dirty, events>>
    /\ resp' = NoResp
    /\ UNCHANGED <<likes, now, ops, feed, scroll>>

\* Soft delete: the isActive flag of a stored post is cleared.
Deactivate(p) ==
    /\ Followed
    /\ p \in Active
    /\ posts' = [posts EXCEPT ![p].isActive = FALSE]
    /\ dirty' = (dirty \/ Written)
    /\ events' = events + 1
    /\ resp' = NoResp
    /\ UNCHANGED <<likes, now, ops, feed, scroll>>

\* The answer of a route other than GET /feed: the status and, with 200,
\* the values the body carries.
Answer(route, status) == [NoResp EXCEPT !.route = route, !.status = status]

\* ------------------------------------------------------ POST /:id/like
\* Post.findById, 404 for a missing post, then the isActive check on the
\* document just read, 400 for an inactive post
LikeFind(o, u, p) ==
    /\ ops[o].kind = "idle"
    /\ Followed
    /\ IF p \in Created /\ posts[p].isActive
       THEN /\ ops' = [ops EXCEPT ![o] = [kind |-> "like", pc |-> "check", user |-> u,
                                          post |-> p, doc |-> Doc(p), text |-> ""]]
            /\ events' = events + 1
            /\ resp' = NoResp
       ELSE /\ resp' = Answer("like", IF p \in Created THEN 400 ELSE 404)
            /\ UNCHANGED <<ops, events>>
    /\ UNCHANGED <<posts, likes, now, feed, scroll, dirty>>

\* LikeCheck storing the Like record before it answers 400.
LikeCheckRecording(o) ==
    /\ ops[o].kind = "like" /\ ops[o].pc = "check"
    /\ IF likes[<<ops[o].user, ops[o].post>>] > 0
       THEN /\ ops' = [ops EXCEPT ![o] = IdleOp]
            /\ resp' = Answer("like", 400)
            /\ likes' = [likes EXCEPT ![<<ops[o].user, ops[o].post>>] = @ + 1]
       ELSE /\ ops' = [ops EXCEPT ![o].pc = "save"]
            /\ resp' = NoResp
            /\ UNCHANGED likes
    /\ UNCHANGED <<posts, now, feed, scroll, dirty, events>>

\* Like.findOne({ userId, postId }): 400 when a record exists
LikeCheck(o) ==
    /\ ops[o].kind = "like" /\ ops[o].pc = "check"
    /\ IF likes[<<ops[o].user, ops[o].post>>] > 0
       THEN /\ ops' = [ops EXCEPT ![o] = IdleOp]
            /\ resp' = Answer("like", 400)
       ELSE /\ ops' = [ops EXCEPT ![o].pc = "save"]
            /\ resp' = NoResp
    /\ UNCHANGED <<posts, likes, now, feed, scroll, dirty, events>>

\* LikeSave on a collection without the unique index (userId, postId).
LikeSaveNoIndex(o) ==
    /\ ops[o].kind = "like" /\ ops[o].pc = "save"
    /\ likes' = [likes EXCEPT ![<<ops[o].user, ops[o].post>>] = @ + 1]
    /\ ops' = [ops EXCEPT ![o].pc = "incr"]
    /\ dirty' = (dirty \/ Written)
    /\ resp' = NoResp
    /\ UNCHANGED <<posts, now, feed, scroll, events>>

\* like.save(): the unique index (userId, postId) rejects a second record,
\* the error ends the request with 500
LikeSave(o) ==
    /\ ops[o].kind = "like" /\ ops[o].pc = "save"
    /\ LET x == <<ops[o].user, ops[o].post>>
       IN IF likes[x] > 0
          THEN /\ ops' = [ops EXCEPT ![o] = IdleOp]
               /\ resp' = Answer("like", 500)
               /\ UNCHANGED <<likes, dirty>>
          ELSE /\ likes' = [likes EXCEPT ![x] = 1]
               /\ ops' = [ops EXCEPT ![o].pc = "incr"]
               /\ resp' = NoResp
               /\ dirty' = (dirty \/ Written)
    /\ UNCHANGED <<posts, now, feed, scroll, events>>

\* post.incrementLikes(): this.likes += 1 on the document read by findById,
\* then save() stores that value; the answer carries likes: post.likes + 1,
\* read from the document after the increment
incrementLikes(o) ==
    LET doc == [ops[o].doc EXCEPT !.likes = @ + 1]
    IN /\ ops[o].kind = "like" /\ ops[o].pc = "incr"
       /\ posts' = [posts EXCEPT ![ops[o].post] = Save(@, ops[o].doc, doc)]
       /\ ops' = [ops EXCEPT ![o] = IdleOp]
       /\ dirty' = (dirty \/ Written)
       /\ resp' = [Answer("like", 200) EXCEPT !.user = ops[o].user, !.post = ops[o].post,
                                              !.likes = doc.likes + 1]
       /\ UNCHANGED <<likes, now, feed, scroll, events>>

\* ---------------------------------------------------- DELETE /:id/like
\* Post.findById, 404 for a missing post (no isActive check here)
UnlikeFind(o, u, p) ==
    /\ ops[o].kind = "idle"
    /\ Followed
    /\ IF p \in Created
       THEN /\ ops' = [ops EXCEPT ![o] = [kind |-> "unlike", pc |-> "check", user |-> u,
                                          post |-> p, doc |-> Doc(p), text |-> ""]]
            /\ events' = events + 1
            /\ resp' = NoResp
       ELSE /\ resp' = Answer("unlike", 404)
            /\ UNCHANGED <<ops, events>>
    /\ UNCHANGED <<posts, likes, now, feed, scroll, dirty>>

\* Like.findOne({ userId, postId }): 400 when there is no record
UnlikeCheck(o) ==
    /\ ops[o].kind = "unlike" /\ ops[o].pc = "check"
    /\ IF likes[<<ops[o].user, ops[o].post>>] = 0
       THEN /\ ops' = [ops EXCEPT ![o] = IdleOp]
            /\ resp' = Answer("unlike", 400)
       ELSE /\ ops' = [ops EXCEPT ![o].pc = "delete"]
            /\ resp' = NoResp
    /\ UNCHANGED <<posts, likes, now, feed, scroll, dirty, events>>

\* Like.findByIdAndDelete(existingLike._id): no error when it is gone
UnlikeDelete(o) ==
    /\ ops[o].kind = "unlike" /\ ops[o].pc = "delete"
    /\ LET x == <<ops[o].user, ops[o].post>>
       IN IF likes[x] > 0
          THEN /\ likes' = [likes EXCEPT ![x] = likes[x] - 1]
               /\ dirty' = (dirty \/ Written)
          ELSE UNCHANGED <<likes, dirty>>
    /\ ops' = [ops EXCEPT ![o].pc = "decr"]
    /\ resp' = NoResp
    /\ UNCHANGED <<posts, now, feed, scroll, events>>

\* post.decrementLikes(): if (this.likes > 0) this.likes -= 1, then save();
\* the answer carries likes: Math.max(0, post.likes - 1), read from the
\* document after the decrement
decrementLikes(o) ==
    LET doc == [ops[o].doc EXCEPT !.likes = IF @ > 0 THEN @ - 1 ELSE @]
    IN /\ ops[o].kind = "unlike" /\ ops[o].pc = "decr"
       /\ posts' = [posts EXCEPT ![ops[o].post] = Save(@, ops[o].doc, doc)]
       /\ dirty' = (dirty \/ (Written /\ posts' # posts))
       /\ ops' = [ops EXCEPT ![o] = IdleOp]
       /\ resp' = [Answer("unlike", 200) EXCEPT
                     !.user = ops[o].user, !.post = ops[o].post,
                     !.likes = IF doc.likes - 1 > 0 THEN doc.likes - 1 ELSE 0]
       /\ UNCHANGED <<likes, now, feed, scroll, events>>

\* ------------------------------------------------------------- GET /:id
\* Post.findById, 404 for a missing or inactive post
ViewFind(o, u, p) ==
    /\ ops[o].kind = "idle"
    /\ Followed
    /\ IF p \in Created /\ posts[p].isActive
       THEN /\ ops' = [ops EXCEPT ![o] = [kind |-> "view", pc |-> "incr", user |-> u,
                                          post |-> p, doc |-> Doc(p), text |-> ""]]
            /\ events' = events + 1
            /\ resp' = NoResp
       ELSE /\ resp' = Answer("view", 404)
            /\ UNCHANGED <<ops, events>>
    /\ UNCHANGED <<posts, likes, now, feed, scroll, dirty>>

\* post.incrementViews(): this.views += 1 on the loaded document, then
\* save(); the Like.findOne that follows reads only, and the answer carries
\* post.toObject()
incrementViews(o) ==
    LET doc == [ops[o].doc EXCEPT !.views = @ + 1]
    IN /\ ops[o].kind = "view" /\ ops[o].pc = "incr"
       /\ posts' = [posts EXCEPT ![ops[o].post] = Save(@, ops[o].doc, doc)]
       /\ ops' = [ops EXCEPT ![o] = IdleOp]
       /\ dirty' = (dirty \/ Written)
       /\ resp' = [Answer("view", 200) EXCEPT !.user = ops[o].user, !.post = ops[o].post,
                                              !.likes = doc.likes, !.content = doc.content]
       /\ UNCHANGED <<likes, now, feed, scroll, events>>

\* ------------------------------------------------------------- PUT /:id
\* !content || content.trim().length === 0, content.length > 2000
validatePostContent(raw) == ~(raw = "" \/ Trim(raw) = "") /\ ~TooLong(raw)

\* EditFind without the check that the requester is the author.
EditFindAnyUser(o, u, p, raw) ==
    /\ ops[o].kind = "idle"
    /\ Followed
    /\ IF p \in Created /\ validatePostContent(raw)
       THEN /\ ops' = [ops EXCEPT ![o] = [kind |-> "edit", pc |-> "save", user |-> u,
                                          post |-> p, doc |-> Doc(p), text |-> Trim(raw)]]
            /\ events' = events + 1
            /\ resp' = NoResp
       ELSE /\ resp' = [Answer("edit", IF p \notin Created THEN 404 ELSE 400)
                           EXCEPT !.user = u, !.post = p, !.rawContent = raw]
            /\ UNCHANGED <<ops, events>>
    /\ UNCHANGED <<posts, likes, now, feed, scroll, dirty>>

\* Post.findById, 404 for a missing post, 403 for a user other than the
\* author, 400 for invalid content; the text handed on is content.trim()
EditFind(o, u, p, raw) ==
    /\ ops[o].kind = "idle"
    /\ Followed
    /\ IF p \in Created /\ posts[p].userId = u /\ validatePostContent(raw)
       THEN /\ ops' = [ops EXCEPT ![o] = [kind |-> "edit", pc |-> "save", user |-> u,
                                          post |-> p, doc |-> Doc(p), text |-> Trim(raw)]]
            /\ events' = events + 1
            /\ resp' = NoResp
       ELSE /\ resp' = [Answer("edit", IF p \notin Created THEN 404
                                       ELSE IF posts[p].userId # u THEN 403 ELSE 400)
                           EXCEPT !.user = u, !.post = p, !.rawContent = raw]
            /\ UNCHANGED <<ops, events>>
    /\ UNCHANGED <<posts, likes, now, feed, scroll, dirty>>

\* post.editPost(content): the content of the loaded document is pushed on
\* editHistory, content and isEdited are set, no counter changes; save()
\* recomputes engagement from the loaded counters
editPost(o) ==
    LET doc == [ops[o].doc EXCEPT !.editHistory = Append(@, ops[o].doc.content),
                                  !.content = ops[o].text,
                                  !.isEdited = TRUE]
    IN /\ ops[o].kind = "edit" /\ ops[o].pc = "save"
       /\ posts' = [posts EXCEPT ![ops[o].post] = Save(@, ops[o].doc, doc)]
       /\ ops' = [ops EXCEPT ![o] = IdleOp]
       /\ dirty' = (dirty \/ (Written /\ posts' # posts))
       /\ resp' = [Answer("edit", 200) EXCEPT !.user = ops[o].user, !.post = ops[o].post,
                                              !.likes = doc.likes, !.content = doc.content]
       /\ UNCHANGED <<likes, now, feed, scroll, events>>

\* --------------------------------------------------------------- GET /feed
\* Queries of single requests: <<page, limit>> as sent.
Queries ==
    {<<pg, RawInt(1)>> : pg \in {RawAbsent, RawText, RawInt(-1), RawInt(2)}}
    \cup {<<RawAbsent, lm>> : lm \in {RawInt(-1), RawInt(0), RawInt(MaxLimit + 1)}}

PageSizes == {1, 2}

\* The user whose requests for pages and for single posts are followed;
\* likes and unlikes come from every user.
Scroller == "u1"

\* The route up to the call of getPersonalizedFeed: parse, validate, 400.
Receive(u, rawPage, rawLimit, track) ==
    LET page == OrDefault(ParseInt(rawPage), DefaultPage)
        limit == OrDefault(ParseInt(rawLimit), DefaultLimit)
    IN IF InvalidPagination(page, limit)
       THEN /\ resp' = [Answer("feed", 400) EXCEPT !.user = u, !.rawPage = rawPage,
                                      !.rawLimit = rawLimit, !.page = page,
                                      !.limit = limit, !.track = track]
            /\ UNCHANGED feed
       ELSE /\ feed' = [IdleFeed EXCEPT !.pc = "tags", !.user = u, !.rawPage = rawPage,
                                        !.rawLimit = rawLimit, !.page = page,
                                        !.limit = limit, !.track = track]
            /\ resp' = NoResp

\* A single request, before any scroll session.
FeedRequest(u, q) ==
    /\ feed.pc = "idle"
    /\ scroll.k = 0
    /\ Receive(u, q[1], q[2], FALSE)
    /\ UNCHANGED <<posts, likes, now, ops, scroll, dirty, events>>

\* The page a scrolling client asks for next: the page after the last one,
\* and once a page said hasMore = false, the page after that one again.
NextPage(sc) ==
    LET last == {i \in 1 .. Len(sc.pages) : ~sc.pages[i].hasMore}
    IN IF last = {} THEN Len(sc.pages) + 1
       ELSE 1 + CHOOSE i \in last : \A j \in last : i <= j

\* A request of the scroll session: user u, fixed page size k.
ScrollRequest(u, k) ==
    /\ feed.pc = "idle"
    /\ Len(scroll.pages) < MaxPages
    /\ \/ scroll.k = 0 /\ scroll' = [NoScroll EXCEPT !.user = u, !.k = k]
       \/ scroll.k = k /\ scroll.user = u /\ UNCHANGED scroll
    /\ Receive(u, RawInt(NextPage(scroll)), RawInt(k), TRUE)
    /\ UNCHANGED <<posts, likes, now, ops, dirty, events>>

\* The answer of a request that threw: 500, no page.
ServerError ==
    [Answer("feed", 500) EXCEPT !.user = feed.user, !.rawPage = feed.rawPage,
                   !.rawLimit = feed.rawLimit, !.page = feed.page, !.limit = feed.limit,
                   !.track = feed.track, !.failed = TRUE]

\* getUserLikedTags: a failed read is caught and answered with []
getUserLikedTags(ok) ==
    /\ feed.pc = "tags"
    /\ feed' = [feed EXCEPT !.pc = "max",
                            !.likedTags = IF ok THEN UserLikedTags(feed.user) ELSE {},
                            !.failed = ~ok]
    /\ resp' = NoResp
    /\ UNCHANGED <<posts, likes, now, ops, scroll, dirty, events>>

\* getMaxLikes reading .likes of the null that findOne returns on an empty
\* collection, with the TypeError thrown on to the route.
getMaxLikesNoGuard(ok) ==
    /\ feed.pc = "max"
    /\ IF ok /\ Created = {}
       THEN /\ resp' = ServerError
            /\ feed' = IdleFeed
       ELSE /\ feed' = [feed EXCEPT !.pc = "posts",
                                    !.maxLikes = IF ok THEN MaxLikesOfStore ELSE 0,
                                    !.failed = feed.failed \/ ~ok]
            /\ resp' = NoResp
    /\ UNCHANGED <<posts, likes, now, ops, scroll, dirty, events>>

\* getMaxLikes: a failed read is caught and answered with 0
getMaxLikes(ok) ==
    /\ feed.pc = "max"
    /\ feed' = [feed EXCEPT !.pc = "posts",
                            !.maxLikes = IF ok THEN MaxLikesOfStore ELSE 0,
                            !.failed = feed.failed \/ ~ok]
    /\ resp' = NoResp
    /\ UNCHANGED <<posts, likes, now, ops, scroll, dirty, events>>

\* An entry of postsWithScores: the post as it was read, the clock value its
\* hoursSinceCreation was taken at, the terms and the rankingScore.
ScoredPost(p, userLikedTags, maxLikes, clock) ==
    [post |-> p, likes |-> posts[p].likes, at |-> clock,
     terms |-> Terms(posts[p], userLikedTags, maxLikes, clock),
     rankingScore |-> calculateRankingScore(posts[p], userLikedTags, maxLikes, clock)]

\* Post.find, the scores, the sort and the slice; a failed find is thrown on.
\* The scores are computed in one synchronous pass right after the read, so
\* every post is scored at the same clock value.
RankPosts(ok) ==
    /\ feed.pc = "posts"
    /\ IF ok
       THEN \E pool \in FindActive :
              LET sc == [p \in SeqToSet(pool) |->
                           calculateRankingScore(posts[p], feed.likedTags, feed.maxLikes, now)]
                  ranked == SortByScore(pool, sc)
                  skip == (feed.page - 1) * feed.limit
                  page == Slice(ranked, skip, feed.limit)
              IN /\ feed' = [feed EXCEPT !.pc = "likes", !.pool = pool,
                                         !.activeAtRead = Active, !.posts = page,
                                         !.poolMax = MaxOf({posts[p].likes : p \in SeqToSet(pool)}),
                                         !.ranking = [i \in 1 .. Len(ranked) |->
                                                        ScoredPost(ranked[i], feed.likedTags,
                                                                   feed.maxLikes, now)],
                                         !.scores = [i \in 1 .. Len(page) |-> sc[page[i]]],
                                         !.total = Len(ranked),
                                         !.hasMore = HasMore(skip, feed.limit, Len(ranked))]
                 /\ resp' = NoResp
       ELSE /\ resp' = ServerError
            /\ feed' = IdleFeed
    /\ UNCHANGED <<posts, likes, now, ops, scroll, dirty, events>>

\* Respond counting a view for every post it delivers.
RespondCountingViews(ok) ==
    /\ feed.pc = "likes"
    /\ feed' = IdleFeed
    /\ IF ok
       THEN /\ resp' = [status |-> 200, route |-> "feed", post |-> 0, likes |-> 0,
                        content |-> "", rawContent |-> "", user |-> feed.user, rawPage |-> feed.rawPage,
                        rawLimit |-> feed.rawLimit, page |-> feed.page,
                        limit |-> feed.limit, track |-> feed.track,
                        failed |-> feed.failed, pool |-> feed.pool,
                        activeAtRead |-> feed.activeAtRead, posts |-> feed.posts,
                        maxLikes |-> feed.maxLikes, poolMax |-> feed.poolMax,
                        ranking |-> feed.ranking, terms |-> <<>>,
                        scores |-> feed.scores,
                        isLiked |-> UserLikeSet(feed.user, SeqToSet(feed.posts)),
                        total |-> feed.total, hasMore |-> feed.hasMore]
            /\ scroll' = IF feed.track
                         THEN [scroll EXCEPT
                                 !.pages = Append(@, [posts |-> feed.posts,
                                                      hasMore |-> feed.hasMore]),
                                 !.inAll = @ \cap SeqToSet(feed.pool)]
                         ELSE scroll
       ELSE /\ resp' = ServerError
            /\ UNCHANGED scroll
    /\ posts' = [p \in PostIds |->
                  IF ok /\ p \in SeqToSet(feed.posts)
                  THEN [posts[p] EXCEPT !.views = @ + 1] ELSE posts[p]]
    /\ UNCHANGED <<likes, now, ops, dirty, events>>

\* Like.find for the isLiked flags, then the answer; a failed find is thrown on.
Respond(ok) ==
    /\ feed.pc = "likes"
    /\ feed' = IdleFeed
    /\ IF ok
       THEN /\ resp' = [status |-> 200, route |-> "feed", post |-> 0, likes |-> 0,
                        content |-> "", rawContent |-> "", user |-> feed.user, rawPage |-> feed.rawPage,
                        rawLimit |-> feed.rawLimit, page |-> feed.page,
                        limit |-> feed.limit, track |-> feed.track,
                        failed |-> feed.failed, pool |-> feed.pool,
                        activeAtRead |-> feed.activeAtRead, posts |-> feed.posts,
                        maxLikes |-> feed.maxLikes, poolMax |-> feed.poolMax,
                        ranking |-> feed.ranking, terms |-> <<>>,
                        scores |-> feed.scores,
                        isLiked |-> UserLikeSet(feed.user, SeqToSet(feed.posts)),
                        total |-> feed.total, hasMore |-> feed.hasMore]
            /\ scroll' = IF feed.track
                         THEN [scroll EXCEPT
                                 !.pages = Append(@, [posts |-> feed.posts,
                                                      hasMore |-> feed.hasMore]),
                                 !.inAll = @ \cap SeqToSet(feed.pool)]
                         ELSE scroll
       ELSE /\ resp' = ServerError
            /\ UNCHANGED scroll
    /\ UNCHANGED <<posts, likes, now, ops, dirty, events>>

\* ----------------------------------------------------------- GET /trending
\* The route up to the call of getTrending: parse, validate, 400.
TrendingReceive(u, rawPage, k) ==
    LET page == OrDefault(ParseInt(rawPage), DefaultPage)
        limit == OrDefault(ParseInt(RawInt(k)), DefaultLimit)
    IN IF InvalidPagination(page, limit)
       THEN /\ resp' = [Answer("trending", 400) EXCEPT !.user = u, !.rawPage = rawPage,
                                      !.rawLimit = RawInt(k), !.page = page,
                                      !.limit = limit, !.track = TRUE]
            /\ UNCHANGED feed
       ELSE /\ feed' = [IdleFeed EXCEPT !.pc = "trending", !.user = u,
                                        !.rawPage = rawPage, !.rawLimit = RawInt(k),
                                        !.page = page, !.limit = limit, !.track = TRUE]
            /\ resp' = NoResp

\* A request of a client that pages through the trending posts with page
\* size k, for as long as the last answer said hasMore.
TrendingRequest(u, k) ==
    /\ feed.pc = "idle"
    /\ Len(scroll.pages) < MaxPages
    /\ scroll.pages # <<>> => scroll.pages[Len(scroll.pages)].hasMore
    /\ \/ scroll.k = 0 /\ scroll' = [NoScroll EXCEPT !.user = u, !.k = k]
       \/ scroll.k = k /\ scroll.user = u /\ UNCHANGED scroll
    /\ TrendingReceive(u, RawInt(Len(scroll.pages) + 1), k)
    /\ UNCHANGED <<posts, likes, now, ops, dirty, events>>

\* The same client followed without an end: of its session the last
\* MaxPages pages are kept, and the page number of a request past page
\* MaxPages is written as MaxPages (the route reads it only to validate it).
TrendingScroll(u, k) ==
    /\ feed.pc = "idle"
    /\ scroll.pages # <<>> => scroll.pages[Len(scroll.pages)].hasMore
    /\ \/ scroll.k = 0 /\ scroll' = [NoScroll EXCEPT !.user = u, !.k = k]
       \/ scroll.k = k /\ scroll.user = u /\ UNCHANGED scroll
    /\ TrendingReceive(u, RawInt(Min(Len(scroll.pages) + 1, MaxPages)), k)
    /\ UNCHANGED <<posts, likes, now, ops, dirty, events>>

\* The last MaxPages pages of a session.
Recent(pages) == IF Len(pages) > MaxPages THEN Tail(pages) ELSE pages

\* skip is computed and not used: Post.getTrending(limit + 1, days), hasMore
\* = posts.length > limit, posts.slice(0, limit)
TrendingFind ==
    /\ feed.pc = "trending"
    /\ \E found \in getTrending(feed.limit + 1, DefaultDays) :
         feed' = [feed EXCEPT !.pc = "trendingLikes", !.pool = found,
                              !.activeAtRead = Active,
                              !.posts = Slice(found, 0, feed.limit),
                              !.hasMore = Len(found) > feed.limit]
    /\ resp' = NoResp
    /\ UNCHANGED <<posts, likes, now, ops, scroll, dirty, events>>

\* Like.find for the isLiked flags, then the answer.
TrendingRespond ==
    /\ feed.pc = "trendingLikes"
    /\ feed' = IdleFeed
    /\ resp' = [Answer("trending", 200) EXCEPT !.user = feed.user,
                              !.rawPage = feed.rawPage, !.rawLimit = feed.rawLimit,
                              !.page = feed.page, !.limit = feed.limit, !.track = TRUE,
                              !.pool = feed.pool, !.activeAtRead = feed.activeAtRead,
                              !.posts = feed.posts,
                              !.isLiked = UserLikeSet(feed.user, SeqToSet(feed.posts)),
                              !.hasMore = feed.hasMore]
    /\ scroll' = [scroll EXCEPT !.pages = Recent(Append(@, [posts |-> feed.posts,
                                                            hasMore |-> feed.hasMore]))]
    /\ UNCHANGED <<posts, likes, now, ops, dirty, events>>

\* ------------------------------------------------- calculateRankingScore
\* One call of calculateRankingScore on post p, the profile and maxLikes of
\* the request, at the clock value now.
ScorePost(p) ==
    /\ resp.terms = <<>>
    /\ p \in Created
    /\ resp' = [NoResp EXCEPT !.terms = <<Terms(posts[p], feed.likedTags, feed.maxLikes, now)>>]
    /\ UNCHANGED <<posts, likes, now, ops, feed, scroll, dirty, events>>

\* One scoring run of a ranking pass on post p, kept with the runs before it:
\* the same profile and maxLikes, the post and the clock as they are now.
ScoreRun(p) ==
    /\ Len(feed.ranking) < MaxRuns
    /\ p \in Created
    /\ feed' = [feed EXCEPT !.ranking =
                   Append(@, ScoredPost(p, feed.likedTags, feed.maxLikes, now))]
    /\ resp' = NoResp
    /\ UNCHANGED <<posts, likes, now, ops, scroll, dirty, events>>

\* ---------------------------------------------------------- specification
Environment ==
    \/ Tick
    \/ \E c \in BOOLEAN, raw \in RawTagLists : CreatePost(c, raw)
    \/ \E p \in PostIds : Deactivate(p)
    \/ \E o \in Writers, u \in Users, p \in Active : LikeFind(o, u, p)
    \/ \E o \in Writers : LikeCheck(o)
    \/ \E o \in Writers : LikeSave(o)
    \/ \E o \in Writers : incrementLikes(o)
    \/ \E o \in Writers, u \in Users, p \in Created : UnlikeFind(o, u, p)
    \/ \E o \in Writers : UnlikeCheck(o)
    \/ \E o \in Writers : UnlikeDelete(o)
    \/ \E o \in Writers : decrementLikes(o)

\* Single feed requests over a store whose reads succeed.
Next ==
    \/ Environment
    \/ \E u \in Users, q \in Queries : FeedRequest(u, q)
    \/ getUserLikedTags(TRUE)
    \/ getMaxLikes(TRUE)
    \/ RankPosts(TRUE)
    \/ Respond(TRUE)

Spec == Init /\ [][Next]_vars

\* Single feed requests over a store whose reads can fail.
NextFail ==
    \/ Environment
    \/ \E u \in Users, q \in Queries : FeedRequest(u, q)
    \/ \E ok \in BOOLEAN : getUserLikedTags(ok)
    \/ \E ok \in BOOLEAN : getMaxLikes(ok)
    \/ \E ok \in BOOLEAN : RankPosts(ok)
    \/ \E ok \in BOOLEAN : Respond(ok)

SpecFail == Init /\ [][NextFail]_vars

\* A scroll session, followed from the empty store and from a store that
\* already holds two posts created one tick apart.

SeededPosts ==
    [p \in PostIds |->
        IF p <= 2 THEN [created |-> TRUE, isActive |-> TRUE, createdAt |-> p - 1,
                        likes |-> 0, views |-> 0, engagement |-> <<0, 1>>, tags |-> {},
                        userId |-> Author, content |-> FirstContent,
                        isEdited |-> FALSE, editHistory |-> <<>>]
        ELSE NewPost]

InitScroll ==
    /\ \/ posts = [p \in PostIds |-> NewPost] /\ now = 0
       \/ posts = SeededPosts /\ now = 1
    /\ likes = [x \in Users \X PostIds |-> 0]
    /\ ops = [o \in OpIds |-> IdleOp]
    /\ feed = IdleFeed
    /\ resp = NoResp
    /\ scroll = NoScroll
    /\ dirty = FALSE
    /\ events = 0

NextScroll ==
    \/ Environment
    \/ \E k \in PageSizes : ScrollRequest(Scroller, k)
    \/ getUserLikedTags(TRUE)
    \/ getMaxLikes(TRUE)
    \/ RankPosts(TRUE)
    \/ Respond(TRUE)

SpecScroll == InitScroll /\ [][NextScroll]_vars

\* Like, unlike, view and edit requests for the stored posts, in flight
\* together, over a store that already holds two posts.
NextRace ==
    \/ \E o \in OpIds, u \in Users, p \in Created : LikeFind(o, u, p)
    \/ \E o \in OpIds : LikeCheck(o)
    \/ \E o \in OpIds : LikeSave(o)
    \/ \E o \in OpIds : incrementLikes(o)
    \/ \E o \in OpIds, u \in Users, p \in Created : UnlikeFind(o, u, p)
    \/ \E o \in OpIds : UnlikeCheck(o)
    \/ \E o \in OpIds : UnlikeDelete(o)
    \/ \E o \in OpIds : decrementLikes(o)
    \/ \E o \in OpIds, p \in Created : ViewFind(o, Scroller, p)
    \/ \E o \in OpIds : incrementViews(o)
    \/ \E o \in OpIds, p \in Created : EditFind(o, Author, p, "x")
    \/ \E o \in OpIds : editPost(o)

\* Like and unlike requests of every user for every post id, stored or not,
\* in flight together, with posts deactivated meanwhile.
NextLikes ==
    \/ \E p \in PostIds : Deactivate(p)
    \/ \E o \in OpIds, u \in Users, p \in PostIds : LikeFind(o, u, p)
    \/ \E o \in OpIds : LikeCheck(o)
    \/ \E o \in OpIds : LikeSave(o)
    \/ \E o \in OpIds : incrementLikes(o)
    \/ \E o \in OpIds, u \in Users, p \in PostIds : UnlikeFind(o, u, p)
    \/ \E o \in OpIds : UnlikeCheck(o)
    \/ \E o \in OpIds : UnlikeDelete(o)
    \/ \E o \in OpIds : decrementLikes(o)

\* Edit requests of every user for every post id with every content, in
\* flight together.
NextEdit ==
    \/ \E o \in OpIds, u \in Users, p \in PostIds, raw \in RawContents :
           EditFind(o, u, p, raw)
    \/ \E o \in OpIds : editPost(o)

\* Single feed requests over a store that already holds two posts, so that
\* the store can hold more posts than the candidate window, with the writes
\* that change the candidates: posts created and deactivated.
InitSeeded ==
    /\ posts = SeededPosts
    /\ likes = [x \in Users \X PostIds |-> 0]
    /\ now = 1
    /\ ops = [o \in OpIds |-> IdleOp]
    /\ feed = IdleFeed
    /\ resp = NoResp
    /\ scroll = NoScroll
    /\ dirty = FALSE
    /\ events = 0

NextSeeded ==
    \/ Tick
    \/ \E c \in BOOLEAN, raw \in RawTagLists : CreatePost(c, raw)
    \/ \E p \in PostIds : Deactivate(p)
    \/ \E u \in Users, q \in Queries : FeedRequest(u, q)
    \/ getUserLikedTags(TRUE)
    \/ getMaxLikes(TRUE)
    \/ RankPosts(TRUE)
    \/ Respond(TRUE)

SpecSeeded == InitSeeded /\ [][NextSeeded]_vars

SpecRace == InitSeeded /\ [][NextRace]_vars

SpecLikes == InitSeeded /\ [][NextLikes]_vars

SpecEdit == InitSeeded /\ [][NextEdit]_vars

\* calculateRankingScore applied to one post: its tags, likes and createdAt,
\* the profile, maxLikes and the clock are drawn from the bounded sets.  The
\* clock can be behind createdAt (clock skew between servers), and likes
\* can be above maxLikes (a like between the two reads).
InitScore ==
    /\ \E tags \in SUBSET TagPool, n \in 0 .. MaxLikes, c \in 0 .. MaxClock :
           posts = [p \in PostIds |->
                      IF p = 1
                      THEN [created |-> TRUE, isActive |-> TRUE, createdAt |-> c,
                            likes |-> n, views |-> 0,
                            engagement |-> updateEngagement([likes |-> n, views |-> 0]),
                            tags |-> tags,
                            userId |-> Author, content |-> FirstContent,
                            isEdited |-> FALSE, editHistory |-> <<>>]
                      ELSE NewPost]
    /\ \E profile \in SUBSET TagPool, m \in 0 .. MaxLikes :
           feed = [IdleFeed EXCEPT !.likedTags = profile, !.maxLikes = m]
    /\ now \in 0 .. MaxClock
    /\ likes = [x \in Users \X PostIds |-> 0]
    /\ ops = [o \in OpIds |-> IdleOp]
    /\ resp = NoResp
    /\ scroll = NoScroll
    /\ dirty = FALSE
    /\ events = 0

NextScore == \E p \in PostIds : ScorePost(p)

SpecScore == InitScore /\ [][NextScore]_vars

\* Scoring runs on one post whose tags and likes, and the profile and
\* maxLikes of the pass, are drawn from the bounded sets, with the clock
\* moving and the post viewed and deactivated between the runs.
InitRuns ==
    /\ \E tags \in SUBSET TagPool, n \in 0 .. MaxLikes :
           posts = [p \in PostIds |->
                      IF p = 1
                      THEN [created |-> TRUE, isActive |-> TRUE, createdAt |-> 0,
                            likes |-> n, views |-> 0,
                            engagement |-> updateEngagement([likes |-> n, views |-> 0]),
                            tags |-> tags,
                            userId |-> Author, content |-> FirstContent,
                            isEdited |-> FALSE, editHistory |-> <<>>]
                      ELSE NewPost]
    /\ \E profile \in SUBSET TagPool, m \in 0 .. MaxLikes :
           feed = [IdleFeed EXCEPT !.likedTags = profile, !.maxLikes = m]
    /\ now = 0
    /\ likes = [x \in Users \X PostIds |-> 0]
    /\ ops = [o \in OpIds |-> IdleOp]
    /\ resp = NoResp
    /\ scroll = NoScroll
    /\ dirty = FALSE
    /\ events = 0

NextRuns ==
    \/ Tick
    \/ \E p \in PostIds : Deactivate(p)
    \/ \E o \in Writers, p \in Active : ViewFind(o, Scroller, p)
    \/ \E o \in Writers : incrementViews(o)
    \/ \E p \in PostIds : ScoreRun(p)

SpecRuns == InitRuns /\ [][NextRuns]_vars

\* A client paging through the trending posts of a store that already
\* holds two posts, with writes that change what getTrending reads: likes,
\* and posts deactivated.
NextTrending ==
    \/ \E p \in PostIds : Deactivate(p)
    \/ \E o \in Writers, u \in Users, p \in Active : LikeFind(o, u, p)
    \/ \E o \in Writers : LikeCheck(o)
    \/ \E o \in Writers : LikeSave(o)
    \/ \E o \in Writers : incrementLikes(o)
    \/ \E k \in PageSizes : TrendingRequest(Scroller, k)
    \/ TrendingFind
    \/ TrendingRespond

SpecTrending == InitSeeded /\ [][NextTrending]_vars

\* A client paging through the trending posts of a store that does not
\* change: MaxPosts posts, any of them active, each liked once and viewed a
\* different number of times, so that their trending order is strict.  Every
\* request a client sends is handled, and the client sends the next one for
\* as long as the last answer said hasMore.
InitStatic ==
    /\ \E act \in SUBSET PostIds :
           posts = [p \in PostIds |->
                      [created |-> TRUE, isActive |-> p \in act, createdAt |-> 0,
                       likes |-> 1, views |-> p - 1,
                       engagement |-> updateEngagement([likes |-> 1, views |-> p - 1]),
                       tags |-> {},
                       userId |-> Author, content |-> FirstContent,
                       isEdited |-> FALSE, editHistory |-> <<>>]]
    /\ likes = [x \in Users \X PostIds |-> IF x[1] = Author THEN 1 ELSE 0]
    /\ now = 1
    /\ ops = [o \in OpIds |-> IdleOp]
    /\ feed = IdleFeed
    /\ resp = NoResp
    /\ scroll = NoScroll
    /\ dirty = FALSE
    /\ events = 0

NextStatic ==
    \/ \E k \in PageSizes : TrendingScroll(Scroller, k)
    \/ TrendingFind
    \/ TrendingRespond

SpecStatic == InitStatic /\ [][NextStatic]_vars /\ WF_vars(NextStatic)

\* ================================================================= claims
\* The answers of GET /feed.
Ok == resp.route = "feed" /\ resp.status = 200
Answered == resp.route = "feed" /\ resp.status # 0
Skip == (resp.page - 1) * resp.limit
PoolOf(r) == SeqToSet(r.pool)

\* The session up to and including the first page that said hasMore = false.
Finals == {i \in 1 .. Len(scroll.pages) : ~scroll.pages[i].hasMore}
Finished == Finals # {}
LastPage == IF Finished THEN CHOOSE i \in Finals : \A j \in Finals : i <= j
            ELSE Len(scroll.pages)
DeliveredOn(p) == {i \in 1 .. LastPage : p \in SeqToSet(scroll.pages[i].posts)}
CeilDiv(m, k) == (m + k - 1) \div k

\* C1: over a static pool of m posts, pages 1, 2, ... of size k deliver every
\* post exactly once in ceil(m / k) pages, every page but the last holds k
\* posts, and the last page says hasMore = false.
C1_PaginationComplete ==
    (Finished /\ ~dirty /\ Active # {} /\ Cardinality(Active) <= CandidateLimit) =>
        /\ \A p \in Active : Cardinality(DeliveredOn(p)) = 1
        /\ LastPage = CeilDiv(Cardinality(Active), scroll.k)
        /\ \A i \in 1 .. LastPage - 1 : Len(scroll.pages[i].posts) = scroll.k

\* No two stored posts have the same createdAt, so the store's answer to the
\* candidate query is the same whenever it is asked.
DistinctTimes ==
    \A p, q \in Created : p # q => posts[p].createdAt # posts[q].createdAt

\* C2: a scroll session delivers no post on two different pages, and misses
\* no post that was a candidate of every page request, also when likes and
\* candidates change between the page requests.
C2_NoDuplicatesNoOmissions ==
    DistinctTimes =>
        /\ \A p \in PostIds : Cardinality(DeliveredOn(p)) <= 1
        /\ Finished => \A p \in scroll.inAll : DeliveredOn(p) # {}

\* C11: with no active post a well-formed feed request is answered 200 with
\* the empty page and hasMore = false, and with fewer active posts than the
\* candidate window holds, all of them are ranked.
C11_EmptyPoolServed ==
    /\ (Answered /\ ~InvalidPagination(resp.page, resp.limit) /\ resp.activeAtRead = {}) =>
           (resp.status = 200 /\ resp.posts = <<>> /\ ~resp.hasMore /\ resp.total = 0)
    /\ (Ok /\ Cardinality(resp.activeAtRead) < CandidateLimit) =>
           (PoolOf(resp) = resp.activeAtRead /\ resp.total = Cardinality(resp.activeAtRead))

C11_Witness ==
    /\ Ok /\ resp.activeAtRead = {} /\ Created = {}
    /\ resp.posts = <<>> /\ resp.total = 0

\* C12: the likes and views counters of every post are never negative, and
\* the stored value of a counter goes down only in the decrement step of an
\* unlike request.
CountersNonNegative ==
    \A p \in PostIds : posts[p].likes >= 0 /\ posts[p].views >= 0

CounterDecreases ==
    \E p \in PostIds : posts'[p].likes < posts[p].likes \/ posts'[p].views < posts[p].views

UnlikeDecrement ==
    \E o \in OpIds : ops[o].kind = "unlike" /\ ops[o].pc = "decr" /\ ops'[o] = IdleOp

C12_CountersMonotone ==
    [](CountersNonNegative) /\ [][CounterDecreases => UnlikeDecrement]_vars

\* C13: in a scroll session interleaved with likes, unlikes and new posts, no
\* post is delivered on more than two pages.
C13_BoundedDrift ==
    DistinctTimes => \A p \in PostIds : Cardinality(DeliveredOn(p)) <= 2

\* C14: no step of a feed request, answered or failed, changes a post or a
\* Like record.
FeedStep == feed' # feed \/ resp'.route = "feed"

C14_FeedReadOnly ==
    [][FeedStep => (posts' = posts /\ likes' = likes)]_vars

C14_Witness ==
    /\ Answered /\ resp.status = 500
    /\ Created # {}
    /\ \E x \in Users \X PostIds : likes[x] > 0

\* C15: there is at most one Like record per (user, post) pair, also when
\* two like requests of one user for one post are in flight together.
C15_OneLikePerPair ==
    \A x \in Users \X PostIds : likes[x] <= 1

C15_Witness ==
    \E o, q \in OpIds :
        /\ o # q
        /\ ops[o].kind = "like" /\ ops[q].kind = "like"
        /\ ops[o].user = ops[q].user /\ ops[o].post = ops[q].post
        /\ ops[o].pc = "incr" /\ ops[q].pc = "save"
        /\ likes[<<ops[o].user, ops[o].post>>] = 1

\* No two active posts have the same engagement and likes, so the order
\* (engagement descending, likes descending) of the active posts is strict.
StrictTrendingOrder ==
    \A p, q \in Active : p # q => ~SameTrending(p, q)

\* C16: over a static pool, two different pages of the trending posts never
\* hold the same post.
C16_TrendingPaginated ==
    (~dirty /\ StrictTrendingOrder) =>
        \A i, j \in 1 .. Len(scroll.pages) :
            i # j => SeqToSet(scroll.pages[i].posts) \cap SeqToSet(scroll.pages[j].posts) = {}

\* C17: the maxLikes used to normalise the popularity term of a ranking pass
\* is the largest likes value among the candidates scored in that pass.
C17_MaxLikesOfCandidates ==
    (Ok /\ resp.pool # <<>>) => resp.maxLikes = resp.poolMax

\* The terms of the call of calculateRankingScore just made.
Scored == resp.terms # <<>>
LastTerms == resp.terms[1]

\* C18: the recency term is computed from h >= 0, is a finite value between
\* 0 and 0.3, and is exactly 0.3 for a post whose createdAt is later than
\* the clock.
C18_RecencyClamped ==
    Scored =>
        /\ LastTerms.hours >= 0
        /\ LastTerms.recency[2] > 0
        /\ LastTerms.recency[1] >= 0
        /\ Geq(<<3, 1>>, LastTerms.recency)
        /\ posts[1].createdAt > now => LastTerms.recency = <<3, 1>>

\* C19: with an empty profile or a post without tags the tag term is exactly
\* 0, and with maxLikes = 0 the popularity term is exactly 0; neither is the
\* result of a division by zero.
C19_ZeroDivisionSafe ==
    Scored =>
        /\ (feed.likedTags = {} \/ posts[1].tags = {}) =>
               (LastTerms.tag[1] = 0 /\ LastTerms.tag[2] # 0)
        /\ feed.maxLikes = 0 =>
               (LastTerms.popularity[1] = 0 /\ LastTerms.popularity[2] # 0)

C19_Witness ==
    /\ Scored
    /\ feed.likedTags = {} /\ posts[1].tags # {}
    /\ feed.maxLikes = 0 /\ posts[1].likes > 0

\* C20: for a non-empty profile P and post tags T the tag term is
\* 0.4 * |T \cap P| / |P|, a value between 0 and 0.4.
C20_TagScore ==
    (Scored /\ feed.likedTags # {}) =>
        /\ LastTerms.tag[2] > 0
        /\ Eq(LastTerms.tag, <<4 * Cardinality(posts[1].tags \cap feed.likedTags),
                               Cardinality(feed.likedTags)>>)
        /\ LastTerms.tag[1] >= 0
        /\ Geq(<<4, 1>>, LastTerms.tag)

C20_Witness ==
    /\ Scored
    /\ Cardinality(feed.likedTags) = 2
    /\ Cardinality(posts[1].tags) = 3
    /\ LastTerms.tag = <<8, 2>>

\* C21: of two candidates of one ranking pass with the same tag term and the
\* same recency term, the one with more likes comes earlier in the ranked
\* sequence.
C21_PopularityOrder ==
    Ok => \A i, j \in 1 .. Len(resp.ranking) :
            (/\ Eq(resp.ranking[i].terms.tag, resp.ranking[j].terms.tag)
             /\ Eq(resp.ranking[i].terms.recency, resp.ranking[j].terms.recency)
             /\ resp.ranking[i].likes > resp.ranking[j].likes) => i < j

\* C22: two scoring runs with the same profile, the same tags, likes and
\* createdAt of the post, the same maxLikes and the same clock value give the
\* same terms and the same score, whatever else changed between them.
C22_ScoreDeterministic ==
    \A i, j \in 1 .. Len(feed.ranking) :
        (/\ feed.ranking[i].post = feed.ranking[j].post
         /\ feed.ranking[i].likes = feed.ranking[j].likes
         /\ feed.ranking[i].at = feed.ranking[j].at) =>
            /\ feed.ranking[i].terms = feed.ranking[j].terms
            /\ feed.ranking[i].rankingScore = feed.ranking[j].rankingScore

C22_Witness ==
    /\ Len(feed.ranking) = 2
    /\ feed.ranking[1].at = feed.ranking[2].at
    /\ feed.ranking[1].rankingScore = feed.ranking[2].rankingScore
    /\ feed.ranking[1].terms.popularity[1] > 0
    /\ posts[1].views > 0 /\ ~posts[1].isActive

\* C23: the step that completes a fetch of a post by id raises the stored
\* views of that post by exactly one, whatever requests ran meanwhile, and a
\* step that starts no fetch (post missing or inactive) changes no post.
ViewCompletes(o) == ops[o].kind = "view" /\ ops'[o] = IdleOp

C23_ViewCounted ==
    [][/\ \A o \in OpIds : ViewCompletes(o) =>
              posts'[ops[o].post].views = posts[ops[o].post].views + 1
       /\ (ops' = ops) => \A p \in PostIds : posts'[p].views = posts[p].views]_vars

\* No like, unlike, view or edit request is in flight.
Quiescent == \A o \in OpIds : ops[o] = IdleOp

\* C24: once the requests in flight have completed, the stored engagement of
\* every post is (likes + 2 * comments + 3 * shares) / (views + 1) of the
\* counters stored with it.
C24_EngagementConsistent ==
    Quiescent => \A p \in Created : Eq(posts[p].engagement, updateEngagement(posts[p]))

\* C25: the step that completes an edit appends the content the post had
\* just before it to editHistory, sets content to the text of the edit and
\* isEdited to true; isEdited is true exactly when editHistory is not empty.
EditCompletes(o) == ops[o].kind = "edit" /\ ops'[o] = IdleOp

C25_EditHistory ==
    /\ [](\A p \in Created : posts[p].isEdited <=> posts[p].editHistory # <<>>)
    /\ [][\A o \in OpIds : EditCompletes(o) =>
             /\ posts'[ops[o].post].editHistory =
                    Append(posts[ops[o].post].editHistory, posts[ops[o].post].content)
             /\ posts'[ops[o].post].content = ops[o].text
             /\ posts'[ops[o].post].isEdited]_vars

\* C26: an edit request for a stored post by a user other than its author is
\* answered 403, one by the author with empty or over-long content 400, and
\* the step that answers 403 or 400 changes no post.
EditRejected == resp.route = "edit" /\ resp.status \in {400, 403}

C27_LikesMatchRecords ==
    Quiescent => \A p \in Created :
                    posts[p].likes = Cardinality({u \in Users : likes[<<u, p>>] > 0})

\* C28: the likes value a like or unlike request answers with is the likes
\* counter stored when it answers.
C28_ReturnedLikes ==
    (resp.route \in {"like", "unlike"} /\ resp.status = 200) =>
        resp.likes = posts[resp.post].likes

\* C29: the step that answers a like or unlike request with 404 or 400
\* changes no Like record and no post.
LikeRejected == resp.route \in {"like", "unlike"} /\ resp.status \in {400, 404}

C29_RejectedUnchanged ==
    [][LikeRejected' => (likes' = likes /\ posts' = posts)]_vars

C29_Witness ==
    /\ resp.route = "like" /\ resp.status = 400
    /\ \E p \in Created : ~posts[p].isActive /\ posts[p].likes > 0
    /\ \E x \in Users \X PostIds : likes[x] > 0

\* C30: over a store that does not change, a client that pages through the
\* trending posts and stops at the first answer with hasMore = false
\* eventually stops.
Stopped == scroll.pages # <<>> /\ ~scroll.pages[Len(scroll.pages)].hasMore

C30_TrendingStops == <>Stopped

\* C3: a request for a position past the end of the ranked sequence is
\* answered with the empty page, hasMore = false, and nothing that depends on
\* more than the request and the size of the pool, so repeating it over a
\* static pool gives the same answer.
C3_TerminalPage ==
    (Ok /\ Skip >= Cardinality(PoolOf(resp))) =>
        /\ resp.posts = <<>>
        /\ resp.hasMore = FALSE
        /\ resp.isLiked = {}
        /\ resp.total = Min(Cardinality(resp.activeAtRead), CandidateLimit)

C3_Witness ==
    /\ Ok /\ resp.page > 1 /\ resp.pool # <<>>
    /\ Skip >= Cardinality(PoolOf(resp))
    /\ resp.posts = <<>>

\* The strict total order (score descending, createdAt descending, id ascending).
Precedes(i, j) ==
    \/ Gt(resp.scores[i], resp.scores[j])
    \/ /\ Eq(resp.scores[i], resp.scores[j])
       /\ \/ posts[resp.posts[i]].createdAt > posts[resp.posts[j]].createdAt
          \/ /\ posts[resp.posts[i]].createdAt = posts[resp.posts[j]].createdAt
             /\ resp.posts[i] < resp.posts[j]

\* C4: every page is in the order (score descending, createdAt descending,
\* id ascending), whatever order the store returned the candidates in.
C4_TotalOrder ==
    Ok => \A i \in 1 .. Len(resp.posts) - 1 : Precedes(i, i + 1)

\* C5: every rankingScore of a feed answer is between 0 and 1.
C5_BoundedScore ==
    Ok => \A i \in 1 .. Len(resp.scores) :
            /\ resp.scores[i][1] >= 0
            /\ resp.scores[i][1] <= resp.scores[i][2]

\* C6: a request whose page size is outside 1..50 is rejected and returns no
\* page; a request with page size k in 1..50 returns at most k posts.
C6_PageSizeChecked ==
    (Answered /\ resp.rawLimit.t = "int") =>
        IF resp.rawLimit.v \in 1 .. MaxLimit
        THEN Len(resp.posts) <= resp.rawLimit.v
        ELSE resp.status = 400 /\ resp.posts = <<>>

\* C7: a request with an unparseable position is answered with an error and
\* no page.
C7_MalformedPosition ==
    (Answered /\ resp.rawPage.t = "text") => (resp.status = 400 /\ resp.posts = <<>>)

\* C8: a request during which a read of the store failed ends with an error
\* and returns no page.
C8_FailedReadAborts ==
    (Answered /\ resp.failed) => (resp.status = 500 /\ resp.posts = <<>>)

\* C9: hasMore is true exactly when a ranked candidate lies after the last
\* position the returned page covers.
C9_HasMoreExact ==
    Ok => (resp.hasMore <=> Cardinality(PoolOf(resp)) > Skip + Len(resp.posts))

C9_Witness ==
    /\ Ok /\ resp.hasMore
    /\ Cardinality(PoolOf(resp)) > Skip + Len(resp.posts)
    /\ resp.posts # <<>>

\* C10: every returned post was active when the candidates were read and is
\* among the CandidateLimit newest active posts, and total is the number of
\* active posts capped at CandidateLimit.
C10_CandidateSelection ==
    Ok =>
        /\ \A i \in 1 .. Len(resp.posts) :
             LET p == resp.posts[i]
             IN /\ p \in resp.activeAtRead
                /\ Cardinality({q \in resp.activeAtRead :
                                  posts[q].createdAt > posts[p].createdAt}) < CandidateLimit
        /\ resp.total = Min(Cardinality(resp.activeAtRead), CandidateLimit)

C10_Witness ==
    /\ Ok
    /\ Cardinality(resp.activeAtRead) > CandidateLimit
    /\ Len(resp.posts) = CandidateLimit
    /\ \E q \in resp.activeAtRead : q \notin PoolOf(resp)

====
